---- MODULE Spec2Model ----
(***************************************************************************)
(* Interview session controllers of AI_INTERVIEW.                          *)
(*                                                                         *)
(* Two versions of the InterviewInterface component exist: the local       *)
(* heuristic controller (src/unnamed/part_000) and the remote-delegating   *)
(* controller (src/src/components/InterviewInterface.tsx, calling          *)
(* src/unnamed/part_001).  One of them is mounted per session; `provider`  *)
(* says which.  The React state of the mounted component is the state of   *)
(* the model; an async handler that is suspended at an await is a record   *)
(* in `inflight` holding the values its closure captured.                  *)
(***************************************************************************)
EXTENDS Integers, Sequences, FiniteSets, TLC

VARIABLES
    provider,              \* "local" | "remote": which component is mounted
    userInfo,              \* props.userInfo
    questions,             \* useState<Question[]>([])
    currentQuestionIndex,  \* useState(0)
    currentAnswer,         \* useState(''), a sequence of characters
    answers,               \* useState<Answer[]>([])
    isCompleted,           \* useState(false)
    isEvaluating,          \* useState(false)
    isLoadingQuestions,    \* useState(true)   (remote controller only)
    followUpQuestion,      \* useState<string | null>(null) (remote only)
    isFollowUp,            \* useState(false)  (remote only)
    loadPc,                \* position of the question-loading effect
    formInfo,              \* WelcomeForm: useState<UserInfo>({name: '', ...})
    loads,                 \* history: question lookups started
    followedUp,            \* history: indices of the questions followed up
    server,                \* the ai-interview function serving one request
    inflight,              \* suspended handleSubmitAnswer invocations
    submits,               \* history: accepted submits that have finished
    followUps,             \* history: submits that ended by entering a follow-up
    lastOp                 \* history: the operation of the last step

vars == <<provider, userInfo, questions, currentQuestionIndex, currentAnswer,
          answers, isCompleted, isEvaluating, isLoadingQuestions,
          followUpQuestion, isFollowUp, loadPc, inflight, submits, followUps,
          lastOp, formInfo, loads, followedUp, server>>

\* The React state of the session, without the history variables.
session == <<questions, currentQuestionIndex, currentAnswer, answers,
             isCompleted, isEvaluating, isLoadingQuestions, followUpQuestion,
             isFollowUp>>

----------------------------------------------------------------------------
\* Bounds

\* Longest question list the question bank or the remote service hands out.
MaxQuestions == 2

----------------------------------------------------------------------------
\* Values

\* JavaScript null / undefined.
Null == "<null>"

Undefined == [id |-> 0, text |-> "<undefined>", type |-> "<undefined>",
              category |-> "<undefined>"]

\* The ai-interview function before a request has arrived.  request is the
\* request being served, bodyRead whether req.json() was called, gemini
\* what the generative API call ended with, responses the Responses
\* returned so far.
NoBody ==
    [parses |-> FALSE, action |-> "<none>", hasQuestion |-> FALSE,
     hasUserInfo |-> FALSE]

NoRequest == [method |-> "<none>", body |-> NoBody]

NoCall == [kind |-> "none", status |-> 0, text |-> Null]

IdleServer ==
    [pc |-> "idle", request |-> NoRequest, bodyRead |-> FALSE,
     gemini |-> NoCall, responses |-> <<>>]

\* Strings the user can have in the textarea: sequences of characters.
AnswerTexts == { <<>>, <<" ">>, <<"a">>, <<" ", "a", " ">> }

IsSpace(c) == c = " "

\* String.prototype.trim
RECURSIVE trimStart(_)
trimStart(s) ==
    IF s = <<>> THEN <<>>
    ELSE IF IsSpace(Head(s)) THEN trimStart(Tail(s)) ELSE s

RECURSIVE trimEnd(_)
trimEnd(s) ==
    IF s = <<>> THEN <<>>
    ELSE IF IsSpace(s[Len(s)]) THEN trimEnd(SubSeq(s, 1, Len(s) - 1)) ELSE s

trim(s) == trimEnd(trimStart(s))

\* A string is truthy iff it is not empty.
Truthy(s) == s # <<>>

\* What the specification calls empty or all whitespace.
AllWhitespace(s) == \A i \in 1..Len(s) : IsSpace(s[i])

----------------------------------------------------------------------------
\* Profile (WelcomeForm) and the question bank of the local controller

ExperienceLevels == { "Fresher (0-1 years)", "Junior (1-3 years)",
                      "Mid-level (3-5 years)", "Senior (5+ years)" }

Profiles == { [name |-> "Asha", role |-> "Backend Developer",
               experience |-> e, education |-> ""] : e \in ExperienceLevels }

QuestionText(i) ==
    CASE i = 1 -> "Q1" [] i = 2 -> "Q2" [] i = 3 -> "Q3" [] OTHER -> "Qn"

\* A question record of the bank: the first is behavioral, the rest technical.
BankQuestion(i) ==
    [id |-> i, text |-> QuestionText(i),
     type |-> IF i = 1 THEN "behavioral" ELSE "technical",
     category |-> IF i = 1 THEN "Introduction" ELSE "Technical"]

Min(a, b) == IF a < b THEN a ELSE b

\* How many questions a level gets; an unrecognised level gets the default
\* list of one question.
QuestionCount(experience) ==
    CASE experience = "Fresher (0-1 years)"   -> Min(1, MaxQuestions)
      [] experience = "Junior (1-3 years)"    -> Min(2, MaxQuestions)
      [] experience = "Mid-level (3-5 years)" -> Min(3, MaxQuestions)
      [] experience = "Senior (5+ years)"     -> Min(4, MaxQuestions)
      [] OTHER -> 1

\* getQuestions(role, experience) of @/utils/interviewLogic: deterministic,
\* non-empty, ordered.
getQuestions(role, experience) ==
    [i \in 1..QuestionCount(experience) |-> BankQuestion(i)]

----------------------------------------------------------------------------
\* Answer scorer and feedback composer of @/utils/interviewLogic

BaseScore == 5
ShortLength == 2
ShortPenalty == 5
SubstantialBonus == 2

Clamp(n) == IF n < 1 THEN 1 ELSE IF n > 10 THEN 10 ELSE n

LengthAdjustment(text) ==
    IF Len(text) < ShortLength THEN 0 - ShortPenalty ELSE SubstantialBonus

\* evaluateAnswer(answer, type): baseline, length adjustment, clamp to [1,10].
evaluateAnswer(text, type) == Clamp(BaseScore + LengthAdjustment(text))

\* generateFeedback(answer, question, score): one message per score band.
generateFeedback(text, question, score) ==
    IF score >= 8 THEN "Strong answer."
    ELSE IF score >= 5 THEN "Good start, add more detail."
    ELSE "Too brief, expand your answer."

----------------------------------------------------------------------------
\* The remote service (supabase.functions.invoke('ai-interview', ...))

\* The two questions loadAIQuestions falls back to.
fallbackQuestions ==
    << [id |-> 1, text |-> "Tell me about yourself and your career goals.",
        type |-> "behavioral", category |-> "Introduction"],
       [id |-> 2,
        text |-> "Describe a challenging situation you faced and how you overcame it.",
        type |-> "behavioral", category |-> "Problem Solving"] >>

\* What generateAIQuestions can settle with: a rejection, or data.questions,
\* a list of any length from 0 to MaxQuestions.
QuestionOutcomes ==
    { [ok |-> FALSE, questions |-> <<>>] } \cup
    { [ok |-> TRUE, questions |-> [i \in 1..n |-> BankQuestion(i)]] :
        n \in 0..MaxQuestions }

\* Scores the remote evaluation can carry: nothing in the client restricts
\* the number the service returns.
RemoteScores == { 0, 5, 6, 11 }

\* What evaluateAnswerWithAI can settle with: a rejection (invoke error, or a
\* null body, which makes reading evaluation.score throw) or an evaluation.
EvaluationOutcomes ==
    { [ok |-> FALSE, score |-> 0, feedback |-> ""] } \cup
    { [ok |-> TRUE, score |-> s, feedback |-> "AI feedback"] : s \in RemoteScores }

\* What generateFollowUp can settle with: a rejection, or a result whose
\* followUpQuestion is null, empty or a question text.
FollowUpOutcomes ==
    { [ok |-> FALSE, followUpQuestion |-> Null] } \cup
    { [ok |-> TRUE, followUpQuestion |-> q] :
        q \in { Null, "", "Can you give a concrete example?" } }

\* followUp.followUpQuestion && ...
TruthyText(q) == q # Null /\ q # ""

FallbackFeedback == "Answer recorded. AI evaluation temporarily unavailable."

----------------------------------------------------------------------------
\* Initial state: the component has just been constructed (useState
\* initialisers), its effect has not run yet.

\* Mutant: the index is initialised as if questions were numbered from 1.
Init_IndexFromOne ==
    /\ provider \in { "local", "remote" }
    /\ userInfo \in Profiles
    /\ questions = <<>>
    /\ currentQuestionIndex = 1
    /\ currentAnswer = <<>>
    /\ answers = <<>>
    /\ isCompleted = FALSE
    /\ isEvaluating = FALSE
    /\ isLoadingQuestions = (provider = "remote")
    /\ followUpQuestion = Null
    /\ isFollowUp = FALSE
    /\ loadPc = "mounted"
    /\ inflight = {}
    /\ submits = 0
    /\ followUps = 0
    /\ lastOp = "init"
    /\ formInfo = userInfo
    /\ loads = 0
    /\ followedUp = {}
    /\ server = IdleServer

Init ==
    /\ provider \in { "local", "remote" }
    /\ userInfo \in Profiles
    /\ questions = <<>>
    /\ currentQuestionIndex = 0
    /\ currentAnswer = <<>>
    /\ answers = <<>>
    /\ isCompleted = FALSE
    /\ isEvaluating = FALSE
    /\ isLoadingQuestions = (provider = "remote")
    /\ followUpQuestion = Null
    /\ isFollowUp = FALSE
    /\ loadPc = "mounted"
    /\ inflight = {}
    /\ submits = 0
    /\ followUps = 0
    /\ lastOp = "init"
    /\ formInfo = userInfo
    /\ loads = 0
    /\ followedUp = {}
    /\ server = IdleServer

----------------------------------------------------------------------------
\* What the component renders

\* Mutant: the summary is not rendered in place of the interview view.
LocalView_NoSummary ==
    IF Len(questions) = 0 THEN "Loading" ELSE "InProgress"

\* Local controller: summary when completed, spinner while questions is
\* empty, the interview view otherwise.
LocalView ==
    IF isCompleted THEN "Completed"
    ELSE IF Len(questions) = 0 THEN "Loading"
    ELSE "InProgress"

\* Mutant: no "Unable to Load Questions" view for an empty list.
RemoteView_NoUnusable ==
    IF isCompleted THEN "Completed"
    ELSE IF isLoadingQuestions THEN "Loading"
    ELSE "InProgress"

\* Remote controller: summary, spinner, "Unable to Load Questions", or the
\* interview view.
RemoteView ==
    IF isCompleted THEN "Completed"
    ELSE IF isLoadingQuestions THEN "Loading"
    ELSE IF Len(questions) = 0 THEN "Unusable"
    ELSE "InProgress"

View == IF provider = "local" THEN LocalView ELSE RemoteView

\* disabled={isEvaluating} of the Textarea
TextareaDisabled == isEvaluating

\* Mutant: the button stays enabled during an evaluation.
SubmitDisabled_NoEvaluating == ~Truthy(trim(currentAnswer))

\* disabled={!currentAnswer.trim() || isEvaluating} of the submit Button
SubmitDisabled == ~Truthy(trim(currentAnswer)) \/ isEvaluating

\* The two pieces of state the end of handleSubmitAnswer sets one of:
\* currentQuestionIndex and isCompleted as they are now.
Position == [index |-> currentQuestionIndex, completed |-> isCompleted]

\* The state of the session in the specification's state machine.
Phase ==
    IF isCompleted THEN "Completed"
    ELSE IF loadPc # "done" THEN "Loading"
    ELSE IF Len(questions) = 0 THEN "Unusable"
    ELSE "InProgress"

\* questions[currentQuestionIndex]
QuestionAt(qs, idx) == IF idx + 1 \in DOMAIN qs THEN qs[idx + 1] ELSE Undefined

----------------------------------------------------------------------------
\* Loading the questions

\* Mutant: the effect has no dependency list and runs again after a render.
LocalLoadQuestions_EveryRender ==
    /\ provider = "local"
    /\ loadPc \in { "mounted", "done" }
    /\ loads < 3
    /\ questions' = getQuestions(userInfo.role, userInfo.experience)
    /\ loadPc' = "done"
    /\ loads' = loads + 1
    /\ lastOp' = "loaded"
    /\ UNCHANGED <<formInfo, followedUp, server, provider, userInfo,
                   currentQuestionIndex, currentAnswer, answers, isCompleted,
                   isEvaluating, isLoadingQuestions, followUpQuestion,
                   isFollowUp, inflight, submits, followUps>>

\* Mutant: the two arguments of getQuestions are exchanged.
LocalLoadQuestions_ArgsSwapped ==
    /\ provider = "local"
    /\ loadPc = "mounted"
    /\ questions' = getQuestions(userInfo.experience, userInfo.role)
    /\ loadPc' = "done"
    /\ loads' = loads + 1
    /\ lastOp' = "loaded"
    /\ UNCHANGED <<formInfo, followedUp, server, provider, userInfo,
                   currentQuestionIndex, currentAnswer, answers, isCompleted,
                   isEvaluating, isLoadingQuestions, followUpQuestion,
                   isFollowUp, inflight, submits, followUps>>

\* Local controller: the effect calls getQuestions and stores the result.
LocalLoadQuestions ==
    /\ provider = "local"
    /\ loadPc = "mounted"
    /\ questions' = getQuestions(userInfo.role, userInfo.experience)
    /\ loadPc' = "done"
    /\ loads' = loads + 1
    /\ lastOp' = "loaded"
    /\ UNCHANGED <<formInfo, followedUp, server, provider, userInfo,
                   currentQuestionIndex, currentAnswer,
                   answers, isCompleted, isEvaluating, isLoadingQuestions,
                   followUpQuestion, isFollowUp, inflight, submits, followUps>>

\* Remote controller: loadAIQuestions up to its await.
loadAIQuestions ==
    /\ provider = "remote"
    /\ loadPc = "mounted"
    /\ isLoadingQuestions' = TRUE
    /\ loadPc' = "awaiting"
    /\ loads' = loads + 1
    /\ lastOp' = "loading"
    /\ UNCHANGED <<formInfo, followedUp, server, provider, userInfo,
                   questions, currentQuestionIndex,
                   currentAnswer, answers, isCompleted, isEvaluating,
                   followUpQuestion, isFollowUp, inflight, submits, followUps>>

\* generateAIQuestions resolved: try-branch, then finally.
QuestionsResolved(o) ==
    /\ provider = "remote"
    /\ loadPc = "awaiting"
    /\ o.ok
    /\ questions' = o.questions
    /\ isLoadingQuestions' = FALSE
    /\ loadPc' = "done"
    /\ lastOp' = "loaded"
    /\ UNCHANGED <<formInfo, loads, followedUp, server, provider, userInfo,
                   currentQuestionIndex, currentAnswer,
                   answers, isCompleted, isEvaluating, followUpQuestion,
                   isFollowUp, inflight, submits, followUps>>

\* Mutant: no finally, the loading flag stays set after a failure.
QuestionsRejected_NoFinally(o) ==
    /\ provider = "remote"
    /\ loadPc = "awaiting"
    /\ ~o.ok
    /\ questions' = fallbackQuestions
    /\ loadPc' = "done"
    /\ lastOp' = "loadFailed"
    /\ UNCHANGED <<formInfo, loads, followedUp, server, provider, userInfo,
                   currentQuestionIndex, currentAnswer,
                   answers, isCompleted, isEvaluating, isLoadingQuestions,
                   followUpQuestion, isFollowUp, inflight, submits, followUps>>

\* generateAIQuestions rejected: catch-branch, then finally.
QuestionsRejected(o) ==
    /\ provider = "remote"
    /\ loadPc = "awaiting"
    /\ ~o.ok
    /\ questions' = fallbackQuestions
    /\ isLoadingQuestions' = FALSE
    /\ loadPc' = "done"
    /\ lastOp' = "loadFailed"
    /\ UNCHANGED <<formInfo, loads, followedUp, server, provider, userInfo,
                   currentQuestionIndex, currentAnswer,
                   answers, isCompleted, isEvaluating, followUpQuestion,
                   isFollowUp, inflight, submits, followUps>>

----------------------------------------------------------------------------
\* Typing

\* onChange of the Textarea: only in the interview view, only while enabled.
TypeAnswer(text) ==
    /\ View = "InProgress"
    /\ ~TextareaDisabled
    /\ text # currentAnswer
    /\ currentAnswer' = text
    /\ lastOp' = "typed"
    /\ UNCHANGED <<formInfo, loads, followedUp, server, provider, userInfo,
                   questions, currentQuestionIndex,
                   answers, isCompleted, isEvaluating, isLoadingQuestions,
                   followUpQuestion, isFollowUp, loadPc, inflight, submits,
                   followUps>>

----------------------------------------------------------------------------
\* handleSubmitAnswer, up to its first await

\* if (!currentAnswer.trim()) return;   (local controller)
LocalEmptySubmission(text) == ~Truthy(trim(text))

\* Mutant: the guard tests the raw string, without trim().
RemoteEmptySubmission_NoTrim(text) == ~Truthy(text)

\* if (!currentAnswer.trim()) return;   (remote controller)
RemoteEmptySubmission(text) == ~Truthy(trim(text))

EmptySubmission(text) ==
    IF provider = "local" THEN LocalEmptySubmission(text)
    ELSE RemoteEmptySubmission(text)

\* The values the handler's closure holds while it is suspended; startedIn
\* and call (the number of this call among the accepted ones) are history.
Closure(pc) ==
    [pc |-> pc,
     currentAnswer |-> currentAnswer,
     currentQuestionIndex |-> currentQuestionIndex,
     questions |-> questions,
     answers |-> answers,
     isFollowUp |-> isFollowUp,
     startedIn |-> Phase,
     call |-> submits + Cardinality(inflight)]

\* The handler is called: it returns at once on an empty submission, and
\* otherwise sets isEvaluating and suspends (on the 1500 ms timer in the
\* local controller, on evaluateAnswerWithAI in the remote one).
handleSubmitAnswer ==
    IF EmptySubmission(currentAnswer)
    THEN /\ lastOp' = "rejected"
         /\ UNCHANGED <<formInfo, loads, followedUp, server, provider, userInfo,
                        questions, currentQuestionIndex,
                        currentAnswer, answers, isCompleted, isEvaluating,
                        isLoadingQuestions, followUpQuestion, isFollowUp,
                        loadPc, inflight, submits, followUps>>
    ELSE /\ isEvaluating' = TRUE
         /\ inflight' = inflight \cup
                { Closure(IF provider = "local" THEN "delay" ELSE "evaluate") }
         /\ lastOp' = "submitted"
         /\ UNCHANGED <<formInfo, loads, followedUp, server, provider, userInfo,
                        questions, currentQuestionIndex,
                        currentAnswer, answers, isCompleted,
                        isLoadingQuestions, followUpQuestion, isFollowUp,
                        loadPc, submits, followUps>>

\* A click on the submit Button: the button exists in the interview view
\* only, and does nothing while it is disabled.
ClickSubmit ==
    /\ View = "InProgress"
    /\ ~SubmitDisabled
    /\ handleSubmitAnswer

\* The handler called with an empty or all-whitespace answer, past the
\* Button's disabled attribute (SpecHandler only).
SubmitBlank ==
    /\ AllWhitespace(currentAnswer)
    /\ handleSubmitAnswer

----------------------------------------------------------------------------
\* Local controller: handleSubmitAnswer after the evaluation delay

\* setAnswers([...answers, newAnswer])
LocalAppendAnswer(prev, a) == Append(prev, a)

\* Mutant: completes one question early.
LocalAdvance_EarlyComplete(idx, len, cur) ==
    IF idx < len - 2
    THEN [cur EXCEPT !.index = idx + 1]
    ELSE [cur EXCEPT !.completed = TRUE]

\* Mutant: records the answer but stays on the same question.
LocalAdvance_NoAdvance(idx, len, cur) ==
    IF idx < len - 1
    THEN cur
    ELSE [cur EXCEPT !.completed = TRUE]

\* Mutant: off by one in the comparison, the last question never completes.
LocalAdvance_NeverCompletes(idx, len, cur) ==
    IF idx < len
    THEN [cur EXCEPT !.index = idx + 1]
    ELSE [cur EXCEPT !.completed = TRUE]

\* if (currentQuestionIndex < questions.length - 1)
\*   setCurrentQuestionIndex(currentQuestionIndex + 1) else setIsCompleted(true)
\* idx is the index the handler captured, cur the state as it is now.
LocalAdvance(idx, len, cur) ==
    IF idx < len - 1
    THEN [cur EXCEPT !.index = idx + 1]
    ELSE [cur EXCEPT !.completed = TRUE]

EvaluationDelayElapsed(h) ==
    /\ provider = "local"
    /\ h \in inflight
    /\ h.pc = "delay"
    /\ inflight' = inflight \ {h}
    /\ UNCHANGED <<formInfo, loads, followedUp, server, provider, userInfo,
                   questions, isLoadingQuestions,
                   followUpQuestion, isFollowUp, loadPc, followUps>>
    /\ LET currentQuestion == QuestionAt(h.questions, h.currentQuestionIndex)
       IN  IF currentQuestion = Undefined
           THEN \* currentQuestion.type throws: the handler ends here
                /\ lastOp' = "threw"
                /\ UNCHANGED <<currentQuestionIndex, currentAnswer, answers,
                               isCompleted, isEvaluating, submits>>
           ELSE LET score == evaluateAnswer(h.currentAnswer, currentQuestion.type)
                    feedback == generateFeedback(h.currentAnswer, currentQuestion, score)
                    newAnswer == [questionId |-> currentQuestion.id,
                                  answer |-> h.currentAnswer,
                                  score |-> score,
                                  feedback |-> feedback]
                    adv == LocalAdvance(h.currentQuestionIndex,
                                        Len(h.questions), Position)
                IN  /\ answers' = LocalAppendAnswer(h.answers, newAnswer)
                    /\ currentAnswer' = <<>>
                    /\ isEvaluating' = FALSE
                    /\ currentQuestionIndex' = adv.index
                    /\ isCompleted' = adv.completed
                    /\ submits' = submits + 1
                    /\ lastOp' = "evaluated"

----------------------------------------------------------------------------
\* Remote controller: handleSubmitAnswer after evaluateAnswerWithAI settles

\* Mutant: the new record is put in front of the history.
RemoteAppendAnswer_Prepend(prev, a) == <<a>> \o prev

\* setAnswers([...answers, newAnswer]) in the try-branch
RemoteAppendAnswer(prev, a) == Append(prev, a)

\* Mutant: the fallback record replaces the history.
FallbackAppendAnswer_Replace(prev, a) == <<a>>

\* setAnswers([...answers, newAnswer]) in the catch-branch
FallbackAppendAnswer(prev, a) == Append(prev, a)

\* score: evaluation.score
RemoteScore(evaluation) == evaluation.score

\* score: 5 of the catch-branch
FallbackScore == 5

\* Mutant: a follow-up is asked for on the last question too.
WantsFollowUp_LastToo(score, idx, len) == score >= 6

\* if (evaluation.score >= 6 && currentQuestionIndex < questions.length - 1)
WantsFollowUp(score, idx, len) == score >= 6 /\ idx < len - 1

\* if (followUp.followUpQuestion && !isFollowUp)
EntersFollowUp(o, h) == o.ok /\ TruthyText(o.followUpQuestion) /\ ~h.isFollowUp

\* Mutant: off by one in the comparison of the try-branch.
RemoteAdvance_PastTheEnd(idx, len, cur) ==
    IF idx < len
    THEN [cur EXCEPT !.index = idx + 1]
    ELSE [cur EXCEPT !.completed = TRUE]

\* Advance or complete at the end of the try-branch: the handler sets the
\* index from the value it captured, or sets isCompleted.
RemoteAdvance(idx, len, cur) ==
    IF idx < len - 1
    THEN [cur EXCEPT !.index = idx + 1]
    ELSE [cur EXCEPT !.completed = TRUE]

\* Mutant: the catch-branch records the answer but does not advance.
FallbackAdvance_NoAdvance(idx, len, cur) ==
    IF idx < len - 1
    THEN cur
    ELSE [cur EXCEPT !.completed = TRUE]

\* Advance or complete in the catch-branch.
FallbackAdvance(idx, len, cur) ==
    IF idx < len - 1
    THEN [cur EXCEPT !.index = idx + 1]
    ELSE [cur EXCEPT !.completed = TRUE]

\* Mutant: isEvaluating is not cleared at the end of the try-branch.
AdvanceAfterEvaluation_NoFinally(h) ==
    LET adv == RemoteAdvance(h.currentQuestionIndex, Len(h.questions), Position)
    IN  /\ currentAnswer' = <<>>
        /\ followUpQuestion' = Null
        /\ isFollowUp' = FALSE
        /\ currentQuestionIndex' = adv.index
        /\ isCompleted' = adv.completed
        /\ submits' = submits + 1
        /\ UNCHANGED isEvaluating

\* The end of the try-branch: clear the answer and the follow-up state,
\* advance or complete, then finally.
AdvanceAfterEvaluation(h) ==
    LET adv == RemoteAdvance(h.currentQuestionIndex, Len(h.questions), Position)
    IN  /\ currentAnswer' = <<>>
        /\ followUpQuestion' = Null
        /\ isFollowUp' = FALSE
        /\ currentQuestionIndex' = adv.index
        /\ isCompleted' = adv.completed
        /\ isEvaluating' = FALSE
        /\ submits' = submits + 1

EvaluationSettled(h, o) ==
    /\ provider = "remote"
    /\ h \in inflight
    /\ h.pc = "evaluate"
    /\ UNCHANGED <<formInfo, loads, followedUp, server, provider, userInfo,
                   questions, isLoadingQuestions, loadPc,
                   followUps>>
    /\ LET currentQuestion == QuestionAt(h.questions, h.currentQuestionIndex)
       IN  IF currentQuestion = Undefined
           THEN \* question.text throws in evaluateAnswerWithAI, then
                \* currentQuestion.id throws in the catch-branch; finally runs
                /\ inflight' = inflight \ {h}
                /\ isEvaluating' = FALSE
                /\ lastOp' = "threw"
                /\ UNCHANGED <<currentQuestionIndex, currentAnswer, answers,
                               isCompleted, followUpQuestion, isFollowUp,
                               submits>>
           ELSE IF ~o.ok
           THEN \* catch-branch: record the fallback answer, advance or
                \* complete; the follow-up state is left as it is
                LET newAnswer == [questionId |-> currentQuestion.id,
                                  answer |-> h.currentAnswer,
                                  score |-> FallbackScore,
                                  feedback |-> FallbackFeedback]
                    adv == FallbackAdvance(h.currentQuestionIndex,
                                           Len(h.questions), Position)
                IN  /\ inflight' = inflight \ {h}
                    /\ answers' = FallbackAppendAnswer(h.answers, newAnswer)
                    /\ currentAnswer' = <<>>
                    /\ currentQuestionIndex' = adv.index
                    /\ isCompleted' = adv.completed
                    /\ isEvaluating' = FALSE
                    /\ submits' = submits + 1
                    /\ lastOp' = "evaluationFailed"
                    /\ UNCHANGED <<followUpQuestion, isFollowUp>>
           ELSE LET newAnswer == [questionId |-> currentQuestion.id,
                                  answer |-> h.currentAnswer,
                                  score |-> RemoteScore(o),
                                  feedback |-> o.feedback]
                IN  /\ answers' = RemoteAppendAnswer(h.answers, newAnswer)
                    /\ IF WantsFollowUp(o.score, h.currentQuestionIndex,
                                        Len(h.questions))
                       THEN \* suspended on generateFollowUp
                            /\ inflight' = (inflight \ {h}) \cup
                                            { [h EXCEPT !.pc = "followUp"] }
                            /\ lastOp' = "awaitFollowUp"
                            /\ UNCHANGED <<currentQuestionIndex, currentAnswer,
                                           isCompleted, isEvaluating,
                                           followUpQuestion, isFollowUp,
                                           submits>>
                       ELSE /\ inflight' = inflight \ {h}
                            /\ AdvanceAfterEvaluation(h)
                            /\ lastOp' = "evaluated"

\* generateFollowUp settled: enter the follow-up, or (no follow-up question,
\* already in a follow-up, or the call rejected) advance or complete.
FollowUpSettled(h, o) ==
    /\ provider = "remote"
    /\ h \in inflight
    /\ h.pc = "followUp"
    /\ inflight' = inflight \ {h}
    /\ UNCHANGED <<formInfo, loads, server, provider, userInfo, questions, answers,
                   isLoadingQuestions, loadPc>>
    /\ IF EntersFollowUp(o, h)
       THEN /\ followUpQuestion' = o.followUpQuestion
            /\ isFollowUp' = TRUE
            /\ currentAnswer' = <<>>
            /\ isEvaluating' = FALSE
            /\ submits' = submits + 1
            /\ followUps' = followUps + 1
            /\ followedUp' = followedUp \cup { h.currentQuestionIndex }
            /\ lastOp' = "followUpEntered"
            /\ UNCHANGED <<currentQuestionIndex, isCompleted>>
       ELSE /\ AdvanceAfterEvaluation(h)
            /\ lastOp' = "evaluated"
            /\ UNCHANGED <<followUps, followedUp>>

----------------------------------------------------------------------------
\* WelcomeForm

\* const roles = [...]
Roles == { "Frontend Developer", "Backend Developer", "Full Stack Developer",
           "Data Analyst", "Data Scientist", "Product Manager",
           "UI/UX Designer", "Marketing Associate", "Business Analyst",
           "Software Engineer", "DevOps Engineer", "QA Engineer" }

\* Texts the user can have in the name and education inputs.
FormNames == { "", " ", "Asha" }

FormEducations == { "", "B.Tech in Computer Science, 2024" }

\* useState<UserInfo>({ name: '', role: '', experience: '', education: '' })
EmptyForm == [name |-> "", role |-> "", experience |-> "", education |-> ""]

\* The form has just been constructed; no interview is mounted.
InitForm ==
    /\ provider \in { "local", "remote" }
    /\ userInfo = EmptyForm
    /\ questions = <<>>
    /\ currentQuestionIndex = 0
    /\ currentAnswer = <<>>
    /\ answers = <<>>
    /\ isCompleted = FALSE
    /\ isEvaluating = FALSE
    /\ isLoadingQuestions = (provider = "remote")
    /\ followUpQuestion = Null
    /\ isFollowUp = FALSE
    /\ loadPc = "unmounted"
    /\ inflight = {}
    /\ submits = 0
    /\ followUps = 0
    /\ lastOp = "init"
    /\ formInfo = EmptyForm
    /\ loads = 0
    /\ followedUp = {}
    /\ server = IdleServer

\* setUserInfo({ ...userInfo, <field>: value }) of the four inputs
SetFormField(field, value) ==
    /\ loadPc = "unmounted"
    /\ formInfo[field] # value
    /\ formInfo' = [formInfo EXCEPT ![field] = value]
    /\ lastOp' = "formEdited"
    /\ UNCHANGED <<loads, followedUp, server, provider, userInfo, questions,
                   currentQuestionIndex, currentAnswer, answers, isCompleted,
                   isEvaluating, isLoadingQuestions, followUpQuestion,
                   isFollowUp, loadPc, inflight, submits, followUps>>

SetName == \E v \in FormNames : SetFormField("name", v)

SetRole == \E v \in Roles : SetFormField("role", v)

SetExperience == \E v \in ExperienceLevels : SetFormField("experience", v)

SetEducation == \E v \in FormEducations : SetFormField("education", v)

\* Mutant: the experience level is not checked.
FormComplete_NoExperience(f) == f.name # "" /\ f.role # ""

\* if (userInfo.name && userInfo.role && userInfo.experience)
FormComplete(f) == f.name # "" /\ f.role # "" /\ f.experience # ""

\* disabled={!userInfo.name || !userInfo.role || !userInfo.experience}
StartDisabled == formInfo.name = "" \/ formInfo.role = "" \/ formInfo.experience = ""

\* A required field of the profile is missing.
MissingRequired(f) == f.name = "" \/ f.role = "" \/ f.experience = ""

\* onStartInterview(userInfo): the caller mounts the interview with the
\* profile, passed by value.
onStartInterview(profile) ==
    /\ userInfo' = profile
    /\ loadPc' = "mounted"

\* handleSubmit of the form
handleSubmit ==
    /\ loadPc = "unmounted"
    /\ IF FormComplete(formInfo)
       THEN /\ onStartInterview(formInfo)
            /\ lastOp' = "started"
       ELSE /\ lastOp' = "formRejected"
            /\ UNCHANGED <<userInfo, loadPc>>
    /\ UNCHANGED <<formInfo, loads, followedUp, server, provider, questions,
                   currentQuestionIndex, currentAnswer, answers, isCompleted,
                   isEvaluating, isLoadingQuestions, followUpQuestion,
                   isFollowUp, inflight, submits, followUps>>

\* A click on "Start Mock Interview": nothing while the button is disabled.
ClickStart ==
    /\ ~StartDisabled
    /\ handleSubmit

\* The form's submit event with a required field missing, past the
\* button's disabled attribute.
SubmitIncomplete ==
    /\ MissingRequired(formInfo)
    /\ handleSubmit

----------------------------------------------------------------------------
\* The ai-interview function (supabase/functions/ai-interview/index.ts)

\* Everything but the function: the client is untouched while it runs.
client == <<provider, userInfo, questions, currentQuestionIndex,
            currentAnswer, answers, isCompleted, isEvaluating,
            isLoadingQuestions, followUpQuestion, isFollowUp, loadPc,
            inflight, submits, followUps, lastOp, formInfo, loads,
            followedUp>>

Methods == { "OPTIONS", "GET", "POST", "PUT" }

\* The three cases of the handler's switch.
ServedActions == { "generateQuestions", "evaluateAnswer", "generateFollowUp" }

\* What a request body can be: text that is not JSON, or an object with an
\* action, with or without the question and userInfo fields.
Bodies ==
    { NoBody } \cup
    [parses : { TRUE }, action : ServedActions \cup { "other" },
     hasQuestion : BOOLEAN, hasUserInfo : BOOLEAN]

\* A GET request carries no body.
Requests ==
    { r \in [method : Methods, body : Bodies] :
        r.method = "GET" => r.body = NoBody }

\* Texts the model can produce: three that are JSON, a JSON value inside a
\* Markdown code fence, and prose.
ModelTexts ==
    { "json-array", "json-object", "json-null", "fenced-json", "prose" }

\* JSON.parse(text) returns rather than throws.
ParsesAsJSON(text) == text \in { "json-array", "json-object", "json-null" }

ErrorStatuses == { 400, 429, 503 }

\* What the fetch of callGemini can end with: a rejection, a non-OK status,
\* an OK payload without candidates[0].content.parts[0], or one with a text.
GeminiOutcomes ==
    { [kind |-> "rejected", status |-> 0, text |-> Null],
      [kind |-> "malformed", status |-> 200, text |-> Null] }
    \cup { [kind |-> "status", status |-> s, text |-> Null] :
             s \in ErrorStatuses }
    \cup { [kind |-> "text", status |-> 200, text |-> t] : t \in ModelTexts }

\* const corsHeaders, and the three kinds of Response the file constructs.
\* cors: the corsHeaders are set; json: Content-Type is application/json.
PreflightResponse ==
    [status |-> 200, cors |-> TRUE, json |-> FALSE, body |-> <<>>]

ErrorResponse(message) ==
    [status |-> 500, cors |-> TRUE, json |-> TRUE,
     body |-> <<"error", message>>]

ResultResponse(key, text) ==
    [status |-> 200, cors |-> TRUE, json |-> TRUE, body |-> <<key, text>>]

\* The two ways an awaited call ends.
Threw(message) == [threw |-> TRUE, value |-> message]

Returned(value) == [threw |-> FALSE, value |-> value]

\* callGemini(prompt), once its fetch has ended with o.
callGemini(o) ==
    CASE o.kind = "rejected" -> Threw(<<"fetch failed">>)
      [] o.kind = "status" -> Threw(<<"Gemini API error", o.status>>)
      [] o.kind = "malformed" -> Threw(<<"TypeError">>)
      [] OTHER -> Returned(o.text)

\* The part the three operations share after the prompt: await callGemini,
\* JSON.parse of its text, and the Response around the parsed value.
ParsedResponse(key, o) ==
    LET response == callGemini(o)
    IN  IF response.threw
        THEN response
        ELSE IF ~ParsesAsJSON(response.value)
             THEN Threw(<<"SyntaxError">>)
             ELSE Returned(ResultResponse(key, response.value))

generatePersonalizedQuestions(o) == ParsedResponse("questions", o)

evaluateAnswerWithAI(o) == ParsedResponse("evaluation", o)

generateFollowUpQuestion(o) == ParsedResponse("followUp", o)

\* The template literal of the operation's prompt evaluates: it reads
\* userInfo.role in all three, and question.text in the last two.
BuildsPrompt(body) ==
    /\ body.hasUserInfo
    /\ body.action # "generateQuestions" => body.hasQuestion

\* The statements of the try block that run once req.json() has settled, up
\* to the fetch: the destructuring, the switch and the prompt.
BeforeFetch(body) ==
    IF ~body.parses
    THEN Threw(<<"SyntaxError">>)
    ELSE IF body.action \notin ServedActions
         THEN Threw(<<"Invalid action">>)
         ELSE IF ~BuildsPrompt(body)
              THEN Threw(<<"TypeError">>)
              ELSE Returned("fetch")

\* The case of the switch, once the fetch has ended with o.
AfterFetch(body, o) ==
    CASE body.action = "generateQuestions" -> generatePersonalizedQuestions(o)
      [] body.action = "evaluateAnswer" -> evaluateAnswerWithAI(o)
      [] OTHER -> generateFollowUpQuestion(o)

\* A rejection that is not awaited inside the try block reaches serve(),
\* which answers it with its own 500, without the CORS headers.
Catch_NotAwaited(outcome) ==
    IF outcome.threw
    THEN [status |-> 500, cors |-> FALSE, json |-> FALSE,
          body |-> <<"Internal Server Error">>]
    ELSE outcome.value

\* try { ... return await ... } catch (error) { return new Response(...) }
Catch(outcome) ==
    IF outcome.threw THEN ErrorResponse(outcome.value) ELSE outcome.value

\* `return response` of the handler.
Respond(response) ==
    server' = [server EXCEPT !.pc = "done",
                             !.responses = Append(@, response)]

InitServer == InitForm

\* serve() calls the handler with a request.  An OPTIONS request is answered
\* at once; for any other the handler calls req.json() and awaits it.
ReceiveRequest(r) ==
    /\ server.pc = "idle"
    /\ IF r.method = "OPTIONS"
       THEN server' = [server EXCEPT !.request = r, !.pc = "done",
                          !.responses = Append(@, PreflightResponse)]
       ELSE server' = [server EXCEPT !.request = r, !.pc = "body",
                                     !.bodyRead = TRUE]
    /\ UNCHANGED client

\* req.json() settles: the handler responds from its catch block, or calls
\* callGemini and awaits the fetch.
BodyParsed ==
    /\ server.pc = "body"
    /\ LET outcome == BeforeFetch(server.request.body)
       IN  IF outcome.threw
           THEN Respond(Catch(outcome))
           ELSE server' = [server EXCEPT !.pc = "fetching"]
    /\ UNCHANGED client

\* The fetch of callGemini ends with o and the handler returns.
GeminiSettled(o) ==
    /\ server.pc = "fetching"
    /\ server' = [server EXCEPT
                    !.pc = "done",
                    !.gemini = o,
                    !.responses =
                        Append(@, Catch(AfterFetch(server.request.body, o)))]
    /\ UNCHANGED client

----------------------------------------------------------------------------
\* Specifications

Next ==
    \/ LocalLoadQuestions
    \/ loadAIQuestions
    \/ \E o \in QuestionOutcomes : QuestionsResolved(o)
    \/ \E o \in QuestionOutcomes : QuestionsRejected(o)
    \/ \E text \in AnswerTexts : TypeAnswer(text)
    \/ ClickSubmit
    \/ \E h \in inflight : EvaluationDelayElapsed(h)
    \/ \E h \in inflight : \E o \in EvaluationOutcomes : EvaluationSettled(h, o)
    \/ \E h \in inflight : \E o \in FollowUpOutcomes : FollowUpSettled(h, o)

\* The program as the user drives it.
Spec == Init /\ [][Next]_vars

\* The user keeps typing a non-empty answer and submitting it, the effect
\* runs, every timer fires and every remote call settles.
NonEmptyTexts == { t \in AnswerTexts : ~AllWhitespace(t) }

Fairness ==
    /\ WF_vars(LocalLoadQuestions)
    /\ WF_vars(loadAIQuestions)
    /\ WF_vars(\E o \in QuestionOutcomes : QuestionsResolved(o) \/ QuestionsRejected(o))
    /\ WF_vars(\E text \in NonEmptyTexts : TypeAnswer(text))
    /\ SF_vars(ClickSubmit)
    /\ WF_vars(\E h \in inflight : EvaluationDelayElapsed(h))
    /\ WF_vars(\E h \in inflight : \E o \in EvaluationOutcomes : EvaluationSettled(h, o))
    /\ WF_vars(\E h \in inflight : \E o \in FollowUpOutcomes : FollowUpSettled(h, o))

FairSpec == Init /\ [][Next]_vars /\ Fairness

\* The welcome form, up to the first question lookup of the interview it
\* starts.
NextForm ==
    \/ SetName
    \/ SetRole
    \/ SetExperience
    \/ SetEducation
    \/ ClickStart
    \/ SubmitIncomplete
    \/ LocalLoadQuestions
    \/ loadAIQuestions

SpecForm == InitForm /\ [][NextForm]_vars

\* The program, with the submit handler also called on empty input.
NextHandler == Next \/ SubmitBlank

SpecHandler == Init /\ [][NextHandler]_vars

\* The ai-interview function serving one request.  The runtime settles the
\* body read and the fetch.
NextServer ==
    \/ \E r \in Requests : ReceiveRequest(r)
    \/ BodyParsed
    \/ \E o \in GeminiOutcomes : GeminiSettled(o)

SpecServer ==
    /\ InitServer
    /\ [][NextServer]_vars
    /\ WF_vars(BodyParsed)
    /\ WF_vars(\E o \in GeminiOutcomes : GeminiSettled(o))

----------------------------------------------------------------------------
\* Claims

Loaded == loadPc = "done" /\ Len(questions) > 0

\* C1 (as stated): in the local controller, after n successful submits
\* answers.length = n = currentIndex and completed = (n = questions.length).
C1_AsStated ==
    (provider = "local" /\ Loaded) =>
        /\ Len(answers) = submits
        /\ currentQuestionIndex = submits
        /\ isCompleted = (submits = Len(questions))

\* C1 (amended): in the local controller, after n successful submits
\* answers.length = n, currentIndex = min(n, questions.length - 1) and
\* completed = (n = questions.length): the index stays on the last question
\* when the session completes.
C1_SessionAfterSubmits ==
    (provider = "local" /\ Loaded) =>
        /\ submits \in 0..Len(questions)
        /\ Len(answers) = submits
        /\ currentQuestionIndex = Min(submits, Len(questions) - 1)
        /\ isCompleted = (submits = Len(questions))

C1_Witness ==
    /\ provider = "local"
    /\ Len(questions) = MaxQuestions
    /\ submits = Len(questions)
    /\ isCompleted
    /\ lastOp = "evaluated"

\* C2: in the local controller, every state that is not completed has
\* exactly one answer per advanced question: answers.length = currentIndex,
\* also while an evaluation is in progress.
C2_OneAnswerPerQuestion ==
    (provider = "local" /\ ~isCompleted) => Len(answers) = currentQuestionIndex

C2_Witness ==
    /\ provider = "local"
    /\ ~isCompleted
    /\ isEvaluating
    /\ currentQuestionIndex >= 1
    /\ Len(answers) = currentQuestionIndex

\* C3: in either controller, the submit handler called with an empty or
\* all-whitespace answer changes nothing: index, answers, completed,
\* evaluating flag, follow-up state and questions stay as they are and no
\* handler is left running that could append a record later.
C3_EmptySubmissionIsNoOp ==
    [][ (AllWhitespace(currentAnswer) /\ lastOp' \in {"rejected", "submitted"})
        => UNCHANGED <<session, inflight, submits, followUps>> ]_vars

C3_Witness ==
    /\ lastOp = "rejected"
    /\ currentAnswer = <<" ">>
    /\ Phase = "InProgress"
    /\ Len(answers) >= 1

\* C4: in the local controller with a non-empty question list, under the
\* fairness of FairSpec, the session eventually is completed with
\* answers.length = questions.length.
C4_EventuallyCompleted ==
    (provider = "local") => <>(isCompleted /\ Len(answers) = Len(questions))

C4_Witness ==
    /\ provider = "local"
    /\ isCompleted
    /\ Len(questions) = MaxQuestions
    /\ Len(answers) = Len(questions)
    /\ ~isEvaluating

\* The local controller run on n accepted submits over len questions:
\* the (currentIndex, number of AnswerRecords, completed) it ends with.
RECURSIVE LocalRun(_, _)
LocalRun(n, len) ==
    IF n = 0 THEN [index |-> 0, answers |-> 0, completed |-> FALSE]
    ELSE LET p == LocalRun(n - 1, len)
             adv == LocalAdvance(p.index, len,
                                 [index |-> p.index, completed |-> p.completed])
         IN  IF p.completed THEN p
             ELSE [index |-> adv.index, answers |-> p.answers + 1,
                   completed |-> adv.completed]

Quiescent == inflight = {}

\* C5 (as stated): between submits, the remote controller has the
\* (currentIndex, number of AnswerRecords, completed) the local controller
\* has after the same number of accepted submits.
C5_AsStated ==
    (provider = "remote" /\ Loaded /\ Quiescent) =>
        LET l == LocalRun(submits, Len(questions))
        IN  /\ currentQuestionIndex = l.index
            /\ Len(answers) = l.answers
            /\ isCompleted = l.completed

\* C5 (amended): between submits, the remote controller has the
\* currentIndex and completed the local controller has after the same
\* submits without those that entered a follow-up, and one AnswerRecord
\* more than the local controller for every follow-up entered.
C5_InterchangeableUpToFollowUps ==
    (provider = "remote" /\ Loaded /\ Quiescent) =>
        LET l == LocalRun(submits - followUps, Len(questions))
        IN  /\ followUps <= submits
            /\ currentQuestionIndex = l.index
            /\ Len(answers) = l.answers + followUps
            /\ isCompleted = l.completed

C5_Witness ==
    /\ provider = "remote"
    /\ Quiescent
    /\ isCompleted
    /\ followUps >= 1
    /\ \E i \in 1..Len(answers) : answers[i].score = FallbackScore

\* C6: every stored AnswerRecord has an integer score in [1,10].
C6_ScoresInRange ==
    \A i \in 1..Len(answers) : answers[i].score \in 1..10

IsPrefix(a, b) == Len(a) <= Len(b) /\ SubSeq(b, 1, Len(a)) = a

AwaitingFollowUp == { h \in inflight : h.pc = "followUp" }

\* C7: the answer history is append-only and in submission order: every
\* step leaves the previous answers as a prefix of the new ones and appends
\* at most one record, and every accepted submit has appended exactly one.
C7_AppendOnly ==
    /\ [][ IsPrefix(answers, answers') /\ Len(answers') <= Len(answers) + 1 ]_vars
    /\ [](Len(answers) = submits + Cardinality(AwaitingFollowUp))

C7_Witness ==
    /\ provider = "remote"
    /\ Len(answers) >= 3
    /\ answers[1].answer # answers[2].answer
    /\ answers[1].questionId = answers[2].questionId

\* C8: a submit takes effect only in InProgress: every running handler was
\* started in InProgress, and answers, currentIndex and completed change
\* only in a step of such a handler.
C8_SubmitOnlyInProgress ==
    /\ [](\A h \in inflight : h.startedIn = "InProgress")
    /\ [][ (answers' # answers \/ currentQuestionIndex' # currentQuestionIndex
              \/ isCompleted' # isCompleted)
           => \E h \in inflight : h \notin inflight' /\ h.startedIn = "InProgress" ]_vars

C8_Witness ==
    /\ Phase = "Completed"
    /\ inflight = {}
    /\ currentAnswer = <<>>
    /\ Len(answers) >= Len(questions)
    /\ Len(questions) = MaxQuestions

\* C9: in the remote controller, when generating the questions fails the
\* session leaves Loading and is InProgress with the two fixed behavioral
\* questions with ids 1 and 2 and currentIndex 0.
C9_FallbackQuestions ==
    (provider = "remote" /\ lastOp = "loadFailed") =>
        /\ ~isLoadingQuestions
        /\ RemoteView = "InProgress"
        /\ Len(questions) = 2
        /\ \A i \in 1..2 : questions[i].id = i /\ questions[i].type = "behavioral"
        /\ currentQuestionIndex = 0
        /\ answers = <<>>

C9_Witness ==
    /\ provider = "remote"
    /\ lastOp = "loadFailed"
    /\ questions = fallbackQuestions

\* C10: in the remote controller, a failed evaluation appends exactly one
\* AnswerRecord for the current question, with score 5 and the non-empty
\* fallback feedback, and then advances to the next question, or completes
\* the session if the question was the last.
C10_EvaluationFailure ==
    [][ lastOp' = "evaluationFailed" =>
          LET q == QuestionAt(questions, currentQuestionIndex)
              last == answers'[Len(answers')]
          IN  /\ Len(answers') = Len(answers) + 1
              /\ IsPrefix(answers, answers')
              /\ last.questionId = q.id
              /\ last.answer = currentAnswer
              /\ last.score = 5
              /\ last.feedback # ""
              /\ IF currentQuestionIndex < Len(questions) - 1
                 THEN currentQuestionIndex' = currentQuestionIndex + 1 /\ ~isCompleted'
                 ELSE currentQuestionIndex' = currentQuestionIndex /\ isCompleted'
              /\ ~isEvaluating' ]_vars

C10_Witness ==
    /\ lastOp = "evaluationFailed"
    /\ Len(answers) >= 2
    /\ answers[Len(answers)].score = 5
    /\ answers[Len(answers)].feedback = FallbackFeedback
    /\ isCompleted

C13_InProgressStartsAtZero ==
    [][ (Phase # "InProgress" /\ Phase' = "InProgress") =>
          /\ currentQuestionIndex' = 0
          /\ answers' = <<>>
          /\ ~isCompleted'
          /\ Len(questions') > 0
          /\ inflight' = {} ]_vars

C13_Witness ==
    /\ provider = "remote"
    /\ lastOp = "loaded"
    /\ Phase = "InProgress"
    /\ Len(questions) = MaxQuestions
    /\ currentQuestionIndex = 0

\* C14: the question lookup runs exactly once per session, and once the
\* questions are loaded no step changes them; no step changes the profile.
C14_QuestionsLoadedOnce ==
    /\ [](loads <= 1 /\ (loadPc = "done" => loads = 1))
    /\ [][ userInfo' = userInfo /\ (loadPc = "done" => questions' = questions) ]_vars

C14_Witness ==
    /\ loads = 1
    /\ isCompleted
    /\ followUps >= 1
    /\ \E i \in 1..Len(answers) : answers[i].feedback = FallbackFeedback

\* C12: the welcome form starts with every field empty; it starts an
\* interview only with a profile whose name, role and experience level are
\* non-empty, which is the profile of the form; a submit with one of the
\* three missing starts nothing and changes no state.  Education may be
\* empty.
C12_StartNeedsRequiredFields ==
    /\ (loadPc = "unmounted" => formInfo = EmptyForm)
    /\ [](loadPc # "unmounted" =>
            userInfo.name # "" /\ userInfo.role # "" /\ userInfo.experience # "")
    /\ [][ (lastOp' = "started" /\ loadPc = "unmounted") => userInfo' = formInfo ]_vars
    /\ [][ (MissingRequired(formInfo) /\ lastOp' \in {"started", "formRejected"})
           => UNCHANGED <<formInfo, userInfo, loadPc, session, loads>> ]_vars

C12_Witness ==
    /\ lastOp = "started"
    /\ loadPc = "mounted"
    /\ userInfo.name = "Asha"
    /\ userInfo.education = ""

C16_FollowUpCleared ==
    /\ [][ (provider = "remote"
               /\ (currentQuestionIndex' # currentQuestionIndex
                     \/ (isCompleted' /\ ~isCompleted)))
           => (~isFollowUp' /\ followUpQuestion' = Null) ]_vars
    /\ []( (provider = "remote" /\ TruthyText(followUpQuestion))
             => currentQuestionIndex \in followedUp )

\* A handler that finishes in this step.
Finishing(h) == h \in inflight /\ submits' = submits + 1

\* C17 (entering): a follow-up is entered only after a successfully
\* evaluated answer with score >= 6 on a question that is not the last, and
\* at most once per question.
C17_FollowUpEntry ==
    [][ lastOp' = "followUpEntered" =>
          LET last == answers[Len(answers)]
          IN  /\ Len(answers) >= 1
              /\ last.score >= 6
              /\ last.feedback # FallbackFeedback
              /\ last.questionId = QuestionAt(questions, currentQuestionIndex).id
              /\ currentQuestionIndex < Len(questions) - 1
              /\ currentQuestionIndex \notin followedUp ]_vars

\* C17: a follow-up is entered only as C17_FollowUpEntry says, and a submit
\* made while in follow-up always advances to the next question.
C17_FollowUpOncePerQuestion ==
    /\ C17_FollowUpEntry
    /\ [][ (\E h \in inflight : Finishing(h) /\ h.isFollowUp)
           => currentQuestionIndex' = currentQuestionIndex + 1 ]_vars

\* C18: in the remote controller with a non-empty list of L questions,
\* under the fairness of FairSpec the session eventually is completed, and
\* a completed session has seen at least L and at most 2L - 1 accepted
\* submits.
C18_RemoteCompletes ==
    /\ []( (provider = "remote" /\ Loaded) => <>isCompleted )
    /\ []( (provider = "remote" /\ isCompleted) =>
             /\ Len(questions) <= submits
             /\ submits <= 2 * Len(questions) - 1 )

C18_Witness ==
    /\ provider = "remote"
    /\ isCompleted
    /\ Len(questions) = MaxQuestions
    /\ submits = 2 * Len(questions) - 1

\* C19: at most one submit is in flight: a handler starts only while none
\* is running and isEvaluating is false, isEvaluating is set exactly while
\* one is running, and the running handler's captured index and answers are
\* the current ones (up to the record it has appended itself).
C19_OneSubmitInFlight ==
    /\ []( /\ Cardinality(inflight) <= 1
           /\ isEvaluating = (inflight # {})
           /\ \A h \in inflight :
                /\ h.call = submits
                /\ h.currentQuestionIndex = currentQuestionIndex
                /\ h.questions = questions
                /\ answers = IF h.pc = "followUp"
                             THEN SubSeq(answers, 1, Len(h.answers)) \o
                                  << answers[Len(answers)] >>
                             ELSE h.answers
                /\ IsPrefix(h.answers, answers) )
    /\ [][ (\E h \in inflight' : h \notin inflight /\ h.pc # "followUp")
           => (~isEvaluating /\ inflight = {}) ]_vars

C19_Witness ==
    /\ isEvaluating
    /\ Len(answers) >= 2
    /\ \E h \in inflight : h.pc = "followUp" /\ h.isFollowUp

\* C20: in the remote controller, under the fairness of FairSpec every
\* evaluation ends: isEvaluating always becomes false again, and it is
\* never true while no handler is running.
C20_EvaluatingEnds ==
    /\ []( (provider = "remote" /\ isEvaluating) => <>(~isEvaluating) )
    /\ []( (provider = "remote" /\ inflight = {}) => ~isEvaluating )

C20_Witness ==
    /\ provider = "remote"
    /\ ~isEvaluating
    /\ lastOp = "evaluationFailed"
    /\ isFollowUp
    /\ isCompleted

\* The loaded questions have pairwise distinct ids.
DistinctQuestionIds ==
    \A i, j \in 1..Len(questions) :
        questions[i].id = questions[j].id => i = j

\* C21: in the remote controller, the questionId values of the stored
\* AnswerRecords are pairwise distinct, given distinct question ids.
C21_OneRecordPerQuestion ==
    (provider = "remote" /\ DistinctQuestionIds) =>
        \A i, j \in 1..Len(answers) :
            answers[i].questionId = answers[j].questionId => i = j

\* C22: in both controllers, once a non-empty question list is loaded the
\* index stays within it, also after completion, so the current question
\* of the view and of every running handler is defined.
C22_IndexInRange ==
    Loaded =>
        /\ currentQuestionIndex \in 0..(Len(questions) - 1)
        /\ QuestionAt(questions, currentQuestionIndex) # Undefined
        /\ \A h \in inflight :
             QuestionAt(h.questions, h.currentQuestionIndex) # Undefined

C22_Witness ==
    /\ provider = "remote"
    /\ isCompleted
    /\ Len(questions) = MaxQuestions
    /\ currentQuestionIndex = Len(questions) - 1
    /\ lastOp = "evaluated"

\* The request being served failed: its body is not JSON, its action is
\* not one of the three, a field its prompt reads is missing, or the call
\* of the generative API did not end with a text that is JSON.
ProcessingFailed ==
    LET body == server.request.body
    IN  \/ ~body.parses
        \/ body.action \notin ServedActions
        \/ ~body.hasUserInfo
        \/ (body.action # "generateQuestions" /\ ~body.hasQuestion)
        \/ server.gemini.kind # "text"
        \/ ~ParsesAsJSON(server.gemini.text)

\* C23 (state part): the handler has returned exactly when there is one
\* response, and never more than one; an OPTIONS request got the preflight
\* response and its body was not read; a failed request of another method
\* got status 500, a JSON {error} body and the CORS headers; any other
\* response followed a generative API call whose text parsed as JSON.
C23_Responses ==
    LET out == server.responses
    IN  /\ Len(out) <= 1
        /\ server.pc = "done" <=> Len(out) = 1
        /\ server.pc = "done" =>
              IF server.request.method = "OPTIONS"
              THEN out[1] = PreflightResponse /\ ~server.bodyRead
              ELSE /\ ProcessingFailed =>
                        /\ out[1].status = 500
                        /\ out[1].cors /\ out[1].json
                        /\ out[1].body[1] = "error"
                   /\ out[1].status # 500 =>
                        /\ server.gemini.kind = "text"
                        /\ ParsesAsJSON(server.gemini.text)
                        /\ out[1].cors /\ out[1].json

\* C23: the ai-interview handler answers every request exactly once: each
\* request it receives is eventually answered, and the response is the
\* preflight response for OPTIONS, status 500 with {error} and the CORS
\* headers for a request that fails, and a success only after the
\* generative API call succeeded and its text parsed as JSON.
C23_AnsweredExactlyOnce ==
    /\ []C23_Responses
    /\ (server.pc # "idle") ~> (server.pc = "done")

\* A POST whose model output was not JSON has been answered with the 500.
C23_Witness ==
    /\ server.pc = "done"
    /\ server.request.method = "POST"
    /\ server.gemini.kind = "text"
    /\ server.gemini.text = "fenced-json"
    /\ server.responses = << ErrorResponse(<<"SyntaxError">>) >>

====
